---- MODULE Spec2Model ----
(***************************************************************************)
(* A model of src/thaplmagic.py: the %%thapl cell magic (ThaplMagics.thapl) *)
(* and the helpers it calls (_write_thapl, _run_latex, _convert_pdf_to_svg, *)
(* _convert_png_to_jpg, _fix_gnuplot_svg_size).                             *)
(*                                                                         *)
(* The program is sequential: one operation runs at a time, pc is its      *)
(* position.  The collaborators outside the source (the argument parser,   *)
(* the file system, the three external tools, the display publisher) are   *)
(* the environment: what they answer is chosen with \E.                    *)
(*                                                                         *)
(* Three specifications:                                                   *)
(*   Spec         the module as shipped.  thapl reads args.python_path     *)
(*                (line 305), an option no @argument declares, so every    *)
(*                invocation that parses ends there with AttributeError;   *)
(*                the helpers are methods of the class and are also        *)
(*                called directly.                                         *)
(*   SpecPipeline the body of thapl past its two defective lines: the      *)
(*                same actions, with python_path taken as a declared       *)
(*                option (line 305) and the template directive of line 368 *)
(*                taken as %(python_path)s.  Statements about the steps    *)
(*                after line 305 can only be examined here.                *)
(*   SpecDocument the same body called with --showlatex and the --package, *)
(*                --library and --circuitikz options varied: the assembly  *)
(*                of the document, lines 339-378.                          *)
(***************************************************************************)
EXTENDS Integers, Sequences, FiniteSets, TLC

(* ------------------------------------------------------------------ *)
(* Bounds                                                               *)
(* ------------------------------------------------------------------ *)

\* Operations (cell executions, direct helper calls) started in one run.
MaxInvocations == 2

(* ------------------------------------------------------------------ *)
(* Strings, sizes, parsing                                              *)
(* ------------------------------------------------------------------ *)

Digits == <<"0", "1", "2", "3", "4", "5", "6", "7", "8", "9">>

IsDigit(c) == \E i \in 1..10 : Digits[i] = c

DigitValue(c) == (CHOOSE i \in 1..10 : Digits[i] = c) - 1

\* str.split(','): the components between the commas, never fewer than one.
RECURSIVE split(_, _)
split(s, sep) ==
    IF \A i \in 1..Len(s) : s[i] # sep
    THEN <<s>>
    ELSE LET k == CHOOSE i \in 1..Len(s) :
                     s[i] = sep /\ \A j \in 1..(i - 1) : s[j] # sep
         IN  <<SubSeq(s, 1, k - 1)>> \o split(SubSeq(s, k + 1, Len(s)), sep)

\* int(s) succeeds on a non-empty run of decimal digits (of the characters
\* the size options below are made of) and raises ValueError otherwise.
int_ok(s) == Len(s) > 0 /\ \A i \in 1..Len(s) : IsDigit(s[i])

RECURSIVE int(_)
int(s) ==
    IF Len(s) = 0 THEN 0
    ELSE 10 * int(SubSeq(s, 1, Len(s) - 1)) + DigitValue(s[Len(s)])

\* The --size option strings tried, as sequences of characters: the default
\* "400,240", other pairs, and malformed ones.
SizeOptions ==
    { <<"4", "0", "0", ",", "2", "4", "0">>,
      <<"3", "2", ",", "2", "0">>,
      <<"7", ",", "7">>,
      <<"x", ",", "5">>,
      <<"8", ",">>,
      <<"6">>,
      <<"1", ",", "2", ",", "3">>,
      <<>> }

(* ------------------------------------------------------------------ *)
(* Options                                                              *)
(* ------------------------------------------------------------------ *)

\* The destinations the @argument decorators declare (lines 188-286).
ArgDests ==
    { "scale", "size", "format", "encoding", "preamble", "package",
      "library", "save", "imagemagick", "pictureoptions", "showlatex",
      "circuitikz", "tikzoptions", "code" }

\* The conversion character that follows %(python_path) in the template of
\* lines 366-372: the text reads "%(python_path) python3", a space flag and
\* then "p".  It is not among FormatConversions: formatting the template as
\* shipped raises ValueError, after the temporary directory was made.
TemplateConversion == "p"

\* The conversion characters %-formatting of a string value accepts.
FormatConversions == { "s", "r", "a" }

\* --format values: the four of the MIME table and one outside it.
Formats == { "png", "svg", "jpg", "jpeg", "gif" }

NoSave == [isset |-> FALSE, path |-> ""]

SaveTo(p) == [isset |-> TRUE, path |-> p]

\* What parse_argstring hands back for a well-formed line: the options the
\* pipeline branches on.
\* --package and --library are comma-separated lists, written here as
\* sequences of names and commas; both default to the empty string.
PackageOptions ==
    { <<>>,
      <<"pgfplots">>,
      <<"pgfplots", ",", "textcomp">>,
      <<"textcomp", ",", "pgfplots">>,
      <<"pgfplots", ",">> }

LibraryOptions == { <<>>, <<"matrix">>, <<"matrix", ",", "arrows">> }

\* What parse_argstring hands back for a well-formed line: the options the
\* pipeline branches on, the document options at their defaults.
Namespaces ==
    [ size : SizeOptions,
      format : Formats,
      save : { NoSave, SaveTo("out") },
      showlatex : BOOLEAN,
      package : { <<>> },
      library : { <<>> },
      circuitikz : { FALSE } ]

\* Lines with --showlatex and the document options varied.
DocumentNamespaces ==
    [ size : { <<"4", "0", "0", ",", "2", "4", "0">> },
      format : { "png" },
      save : { NoSave },
      showlatex : { TRUE },
      package : PackageOptions,
      library : LibraryOptions,
      circuitikz : BOOLEAN ]

NoArgs ==
    [ size |-> <<>>, format |-> "", save |-> NoSave, showlatex |-> FALSE,
      package |-> <<>>, library |-> <<>>, circuitikz |-> FALSE ]

(* ------------------------------------------------------------------ *)
(* The document, lines 332-378                                          *)
(* ------------------------------------------------------------------ *)

RECURSIVE join(_)
\* str('').join(parts)
join(parts) ==
    IF parts = <<>> THEN "" ELSE Head(parts) \o join(Tail(parts))

\* --tikzoptions and --preamble at their defaults; python_path as the
\* option of the pipeline specification gives it.
tikz_options == ""

preamble == ""

python_path == ""

\* Lines 332-337
tikz_package(circuitikz) == IF circuitikz THEN "circuitikz" ELSE "tikz"

\* Package lines for the names that are not empty only.
package_lines_nonempty(latex_package) ==
    LET named == SelectSeq(latex_package, LAMBDA pkg : pkg # <<>>)
    IN  [ i \in 1..Len(named) |->
            "\n\\usepackage{" \o join(named[i]) \o "}\n            " ]

\* Lines 347-350: one piece per element of latex_package, in its order.
package_lines(latex_package) ==
    [ i \in 1..Len(latex_package) |->
        "\n\\usepackage{" \o join(latex_package[i]) \o "}\n            " ]

\* Lines 352-355
library_lines(tikz_library) ==
    [ i \in 1..Len(tikz_library) |->
        "\n\\usetikzlibrary{" \o join(tikz_library[i]) \o "}\n            " ]

\* Lines 339-364: the list `tex` up to the document-begin marker.  Line 340
\* is a raw string, so its two backslashes are both in the document; the
\* preamble piece is appended whenever args.preamble is not None, and its
\* default is ''.
tex_head(ns) ==
    << "\\\\documentclass{beamer}",
       "\\usepackage[" \o tikz_options \o "]{"
           \o tikz_package(ns.circuitikz) \o "}\n",
       "\\usepackage{bashful}\n" >>
    \o package_lines(split(ns.package, ","))
    \o library_lines(split(ns.library, ","))
    \o << "\n" \o preamble \o "\n            ",
          "\n\\begin{document}\n        " >>

\* Lines 366-376: the template formatted with %(python_path) taken as a
\* string conversion (the blank is its flag, the p its conversion
\* character), and the document-end marker.
tex_tail ==
    << "\n\\bash[stdoutFile=\\jobname.thapl.tex]\nPYTHONPATH=\""
           \o python_path
           \o "ython3 -m thapl.main ./magic.thapl\n\\END\n\n\\include{\\jobname.thapl}\n        ",
       "\n\\end{document}\n        " >>

_mimetypes ==
    [ f \in { "png", "svg", "jpg", "jpeg" } |->
        CASE f = "png" -> "image/png"
          [] f = "svg" -> "image/svg+xml"
          [] f = "jpg" -> "image/jpeg"
          [] f = "jpeg" -> "image/jpeg" ]

\* The type named after the format, whatever the table says.
mimetype_by_format(plot_format) == "image/" \o plot_format

\* _mimetypes.get(plot_format, 'image/%s' % plot_format)
mimetype(plot_format) ==
    IF plot_format \in DOMAIN _mimetypes
    THEN _mimetypes[plot_format]
    ELSE "image/" \o plot_format

(* ------------------------------------------------------------------ *)
(* Files and their contents                                             *)
(* ------------------------------------------------------------------ *)

\* A file's content.  kind "svg" is a well-formed XML document with one svg
\* element, whose attributes are the other fields; kind "bytes" is anything
\* else (a raster image, a PDF); kind "text" is decodable text; kind "raw"
\* is bytes the default text encoding cannot decode.
Text(s) ==
    [kind |-> "text", body |-> s, viewBox |-> <<>>, width |-> "", height |-> ""]

Bytes(b) ==
    [kind |-> "bytes", body |-> b, viewBox |-> <<>>, width |-> "", height |-> ""]

Raw(b) ==
    [kind |-> "raw", body |-> b, viewBox |-> <<>>, width |-> "", height |-> ""]

SvgFile(vb) ==
    [kind |-> "svg", body |-> "figure", viewBox |-> vb, width |-> "", height |-> ""]

\* What a tikz.<format> file may hold.
ImageContents ==
    { SvgFile(<<"0", " ", "0", " ", "9", " ", "5">>), SvgFile(<<>>),
      Bytes("raster") }

\* What a thapl.log file may hold: nothing, a message, undecodable bytes.
LogContents == { Text(""), Text("! Undefined control sequence."), Raw("log") }

NoFiles == [n \in {} |-> Text("")]

\* The directory's files after `name` is written with `content`.
WriteFile(fs, name, content) ==
    [n \in DOMAIN fs \cup {name} |-> IF n = name THEN content ELSE fs[n]]

\* "%s/tikz.%s" % (plot_dir, plot_format), relative to plot_dir
image_name(plot_format) == "tikz." \o plot_format

NotebookDir == "notebook"

ScratchDir == "scratch"

\* tempfile.mkdtemp(): a directory that did not exist.
RECURSIVE FreshDir(_, _)
FreshDir(existing, i) ==
    IF ("tmp" \o ToString(i)) \in existing
    THEN FreshDir(existing, i + 1)
    ELSE "tmp" \o ToString(i)

mkdtemp(existing) == FreshDir(existing, 1)

(* ------------------------------------------------------------------ *)
(* The environment handed to the LaTeX engine                           *)
(* ------------------------------------------------------------------ *)

pathsep == ":"

Unset == [isset |-> FALSE, value |-> ""]

SetTo(v) == [isset |-> TRUE, value |-> v]

\* env = environ.copy(); env['TEXINPUTS'] = ...  (lines 119-123): the value
\* the subprocess sees, computed from the parent's.
child_texinputs(environ_texinputs, current_dir) ==
    IF environ_texinputs.isset
    THEN SetTo(current_dir \o pathsep \o environ_texinputs.value)
    ELSE SetTo("." \o pathsep \o current_dir \o pathsep \o pathsep)

\* TEXINPUTS assigned in os.environ itself, not in a copy of it.
environ_shared_with_child(environ_texinputs, current_dir) ==
    child_texinputs(environ_texinputs, current_dir)

\* The parent's os.environ after _run_latex built the child's environment:
\* the assignment goes to the copy, the parent's mapping is left as it was.
environ_after_run(environ_texinputs, current_dir) == environ_texinputs

(* ------------------------------------------------------------------ *)
(* Events of one operation, in order                                    *)
(* ------------------------------------------------------------------ *)

Event(ev, arg) == [ev |-> ev, arg |-> arg]

Happened(evs, ev) == \E i \in 1..Len(evs) : evs[i].ev = ev

Count(evs, ev) == Cardinality({ i \in 1..Len(evs) : evs[i].ev = ev })

CountOf(evs, e) == Cardinality({ i \in 1..Len(evs) : evs[i] = e })

\* every occurrence of e1 comes before every occurrence of e2
Before(evs, e1, e2) ==
    \A i, j \in 1..Len(evs) : (evs[i] = e1 /\ evs[j] = e2) => i < j

(* ------------------------------------------------------------------ *)
(* What the external tools do when called                               *)
(* ------------------------------------------------------------------ *)

\* The files a tool leaves: none, or `name` with one of `contents`.
Maybe(name, contents) ==
    {NoFiles} \cup { WriteFile(NoFiles, name, c) : c \in contents }

Merge(f, g) ==
    [n \in DOMAIN f \cup DOMAIN g |-> IF n \in DOMAIN g THEN g[n] ELSE f[n]]

\* A call(...) of a tool: rc "zero" or "nonzero" is its return code, "oserror"
\* is the launch failing with OSError, "other" is call raising anything else
\* (the kernel is interrupted while the tool runs); writes are the files the
\* tool leaves in its working directory.
\*
\* xelatex --shell-escape magic.tex: on success it leaves magic.pdf; run with
\* shell escape, the document may leave further files, of which thapl.log
\* and the names in `extras` are the ones looked up later.
LatexRuns(extras) ==
    { [rc |-> "zero", writes |-> Merge(WriteFile(NoFiles, "magic.pdf", Bytes("pdf")), x)] :
        x \in extras }
    \cup { [rc |-> "nonzero", writes |-> Merge(l, x)] :
             l \in Maybe("thapl.log", LogContents), x \in extras }
    \cup { [rc |-> "oserror", writes |-> NoFiles],
           [rc |-> "other", writes |-> NoFiles] }

\* pdf2svg magic.pdf magic.svg / convert magic.png ... magic.jpg: on success
\* the tool leaves the output file its command line names.
ConvertRuns(output) ==
    { [rc |-> "zero", writes |-> WriteFile(NoFiles, output, Bytes("converted"))],
      [rc |-> "nonzero", writes |-> NoFiles],
      [rc |-> "oserror", writes |-> NoFiles],
      [rc |-> "other", writes |-> NoFiles] }

(* ------------------------------------------------------------------ *)
(* The helpers                                                          *)
(* ------------------------------------------------------------------ *)

NoneLog == [none |-> TRUE, text |-> ""]

LogText(t) == [none |-> FALSE, text |-> t]

\* What a helper leaves behind: the working directory, the directory's
\* files, the parent's TEXINPUTS, the environment handed to the tool, the
\* events in order, the exception raised ("" for a normal return) and the
\* value returned.
Result(cwd_, files_, environ_, child_, events_, exc_, log_) ==
    [ cwd |-> cwd_, files |-> files_, environ |-> environ_, child |-> child_,
      events |-> events_, exc |-> exc_, log |-> log_ ]

\* A writer that swallows the failure of the open or the write.
_write_thapl_quietly(code, dir, cwd0, fs, env0, ok) ==
    IF ok
    THEN Result(cwd0, WriteFile(fs, "magic.thapl", code), env0, Unset,
                <<Event("write", "magic.thapl")>>, "", NoneLog)
    ELSE Result(cwd0, fs, env0, Unset, <<>>, "", NoneLog)

\* _write_thapl(code, encoding, dir), lines 103-105; `ok` is whether the
\* open and the write succeed.
_write_thapl(code, dir, cwd0, fs, env0, ok) ==
    IF ok
    THEN Result(cwd0, WriteFile(fs, "magic.thapl", code), env0, Unset,
                <<Event("write", "magic.thapl")>>, "", NoneLog)
    ELSE Result(cwd0, fs, env0, Unset, <<>>, "OSError", NoneLog)

\* Lines 139-145: the log read back after a failed run, in directory `fs`.
read_log(fs) ==
    IF "thapl.log" \notin DOMAIN fs
    THEN [exc |-> "", log |-> NoneLog,
          events |-> <<Event("stderr", "No log file generated.")>>]
    ELSE IF fs["thapl.log"].kind = "text"
    THEN [exc |-> "", log |-> LogText(fs["thapl.log"].body), events |-> <<>>]
    ELSE [exc |-> "UnicodeDecodeError", log |-> NoneLog, events |-> <<>>]

\* The directory a helper leaves the process in once its body ran to the
\* end: the closing chdir(current_dir) of lines 147, 165 and 184.
restore_cwd(current_dir, dir) == current_dir

\* The directory the process is in when an exception leaves a helper after
\* its chdir(dir): no handler or finally clause changes it back.
cwd_on_raise(current_dir, dir) == dir

\* _run_latex(code, encoding, dir), lines 107-149; `ok` is whether magic.tex
\* can be written, `run` what the engine does.
_run_latex(code, dir, cwd0, fs, env0, ok, run) ==
    IF ~ok
    THEN Result(cwd0, fs, env0, Unset, <<>>, "OSError", NoneLog)
    ELSE
    LET fs1 == WriteFile(fs, "magic.tex", code)
        current_dir == cwd0
        env == child_texinputs(env0, current_dir)
        parent == environ_after_run(env0, current_dir)
        fs2 == Merge(fs1, run.writes)
        head == << Event("write", "magic.tex"), Event("chdir", dir),
                   Event("call", "xelatex") >>
        ret_log == run.rc \in {"nonzero", "oserror"}
        said == CASE run.rc = "nonzero" ->
                       <<Event("stderr", "LaTeX terminated with signal")>>
                  [] run.rc = "oserror" ->
                       <<Event("stderr", "LaTeX execution failed:")>>
                  [] OTHER -> <<>>
        rd == read_log(fs2)
    IN  IF run.rc = "other"
        THEN Result(cwd_on_raise(current_dir, dir), fs2, parent, env, head,
                    "KeyboardInterrupt", NoneLog)
        ELSE IF ~ret_log
        THEN Result(restore_cwd(current_dir, dir), fs2, parent, env,
                    head \o <<Event("chdir", current_dir)>>, "", NoneLog)
        ELSE IF rd.exc # ""
        THEN Result(cwd_on_raise(current_dir, dir), fs2, parent, env,
                    head \o said \o rd.events, rd.exc, NoneLog)
        ELSE Result(restore_cwd(current_dir, dir), fs2, parent, env,
                    head \o said \o rd.events \o <<Event("chdir", current_dir)>>,
                    "", rd.log)

\* The body shared by the two conversion helpers: chdir, call, report,
\* chdir back.
convert(tool, dir, cwd0, fs, env0, run) ==
    LET current_dir == cwd0
        fs1 == Merge(fs, run.writes)
        head == <<Event("chdir", dir), Event("call", tool)>>
        said == CASE run.rc = "nonzero" ->
                       <<Event("stderr", tool \o " terminated with signal")>>
                  [] run.rc = "oserror" ->
                       <<Event("stderr", tool \o " execution failed:")>>
                  [] OTHER -> <<>>
    IN  IF run.rc = "other"
        THEN Result(cwd_on_raise(current_dir, dir), fs1, env0, Unset, head,
                    "KeyboardInterrupt", NoneLog)
        ELSE Result(restore_cwd(current_dir, dir), fs1, env0, Unset,
                    head \o said \o <<Event("chdir", current_dir)>>, "", NoneLog)

\* _convert_pdf_to_svg(dir), lines 151-165
\* The svg conversion run through the raster converter.
_convert_pdf_to_svg_by_convert(dir, cwd0, fs, env0, run) ==
    convert("convert", dir, cwd0, fs, env0, run)

_convert_pdf_to_svg(dir, cwd0, fs, env0, run) ==
    convert("pdf2svg", dir, cwd0, fs, env0, run)

\* _convert_png_to_jpg(dir, imagemagick_path), lines 167-184, with the
\* default tool name
_convert_png_to_jpg(dir, cwd0, fs, env0, run) ==
    convert("convert", dir, cwd0, fs, env0, run)

NoSize == [none |-> TRUE, width |-> 0, height |-> 0]

SizeOf(w, h) == [none |-> FALSE, width |-> w, height |-> h]

\* A rewriting that hands the requested height to width and the width to
\* height.
_fix_gnuplot_svg_size_swapped(image, size) ==
    IF image.kind # "svg"
    THEN [exc |-> "ExpatError", value |-> image]
    ELSE [exc |-> "",
          value |-> [image EXCEPT
                       !.width = ToString(size.height) \o "px",
                       !.height = ToString(size.width) \o "px"]]

\* _fix_gnuplot_svg_size(image, size), lines 77-101.  The document must
\* parse and hold one svg element; with a size, its width and height become
\* '%dpx' % n; without one the two last viewBox components are strings, and
\* '%dpx' % of a string raises TypeError.
_fix_gnuplot_svg_size(image, size) ==
    IF image.kind # "svg"
    THEN [exc |-> "ExpatError", value |-> image]
    ELSE LET viewbox == split(image.viewBox, " ")
             rest == SubSeq(viewbox, 3, Len(viewbox))
         IN  IF size.none
             THEN IF Len(rest) # 2
                  THEN [exc |-> "ValueError", value |-> image]
                  ELSE [exc |-> "TypeError", value |-> image]
             ELSE [exc |-> "",
                   value |-> [image EXCEPT
                                !.width = ToString(size.width) \o "px",
                                !.height = ToString(size.height) \o "px"]]

(* ------------------------------------------------------------------ *)
(* State                                                                *)
(* ------------------------------------------------------------------ *)

VARIABLES
    pc,            \* position of the running operation; "idle"/"done" between
    op,            \* the operation: "thapl" or a helper called directly
    args,          \* the Namespace parse_argstring returned
    plot_dir,      \* the directory the operation works in
    workspaces,    \* the temporary directories that exist
    files,         \* the files of plot_dir
    cwd,           \* the process's working directory
    entry_cwd,     \* the working directory when the operation was called
    environ,       \* TEXINPUTS in the parent's os.environ
    child_env,     \* TEXINPUTS handed to the LaTeX engine by this operation
    events,        \* what the operation did, in order
    latex_log,     \* the value _run_latex returned
    display_data,  \* the list of line 388
    published,     \* the calls of _publish_display_data, in order
    outcome,       \* "" while running, "returned", or the exception raised
    saved,         \* the files at save paths
    invocations,   \* operations started
    tex            \* the list `tex` of lines 339-376

vars ==
    << pc, op, args, plot_dir, workspaces, files, cwd, entry_cwd, environ,
       child_env, events, latex_log, display_data, published, outcome, saved,
       invocations, tex >>

\* The words of the line that are no option, and the cell body.
CodeTokens == << "scene", "s;" >>

Cell == "draw s"

\* Lines 309-316: str('').join(args.code) + code
code_of(tokens, cell) == join(tokens) \o cell

\* the raw source, and the document a direct call of _run_latex is given
Code == Text(code_of(CodeTokens, Cell))

Tex == Text("tex")

key == "ThaplMagic.Thapl"

Init ==
    /\ pc = "idle"
    /\ op = "none"
    /\ args = NoArgs
    /\ plot_dir = ""
    /\ workspaces = {}
    /\ files = NoFiles
    /\ cwd = NotebookDir
    /\ entry_cwd = NotebookDir
    /\ environ \in { Unset, SetTo("texmf") }
    /\ child_env = Unset
    /\ events = <<>>
    /\ latex_log = NoneLog
    /\ display_data = <<>>
    /\ published = <<>>
    /\ outcome = ""
    /\ saved = NoFiles
    /\ invocations = 0
    /\ tex = <<>>

\* An operation is called: the previous one has ended, and what is recorded
\* per operation starts afresh.
Start(name) ==
    /\ pc \in {"idle", "done"}
    /\ invocations < MaxInvocations
    /\ invocations' = invocations + 1
    /\ op' = name
    /\ entry_cwd' = cwd
    /\ display_data' = <<>>
    /\ published' = <<>>
    /\ tex' = <<>>

\* The operation ends by raising exc.
Raise(exc) == pc' = "done" /\ outcome' = exc

\* The operation ends by returning.
Return == pc' = "done" /\ outcome' = "returned"

\* A helper's result r takes effect, after the events evs and the
\* environment child0 handed out so far.
Apply(r, evs, child0) ==
    /\ cwd' = r.cwd
    /\ files' = r.files
    /\ environ' = r.environ
    /\ child_env' = IF r.child.isset THEN r.child ELSE child0
    /\ events' = evs \o r.events

(* ------------------------------------------------------------------ *)
(* thapl, lines 288-430                                                 *)
(* ------------------------------------------------------------------ *)

\* Line 294: parse_argstring returns a Namespace or raises UsageError.
thapl_invoke(namespaces) ==
    /\ Start("thapl")
    /\ \E ns \in namespaces, parsed \in BOOLEAN :
         IF parsed
         THEN args' = ns /\ pc' = "t_args" /\ outcome' = ""
         ELSE args' = NoArgs /\ Raise("UsageError")
    /\ plot_dir' = ""
    /\ files' = NoFiles
    /\ events' = <<>>
    /\ latex_log' = NoneLog
    /\ child_env' = Unset
    /\ UNCHANGED << workspaces, cwd, environ, saved >>

\* Lines 295-305: the options are read.  width, height = size.split(',')
\* needs two components; args.python_path needs the option to be one of
\* `dests`.
thapl_read_args(dests) ==
    /\ pc = "t_args"
    /\ UNCHANGED tex
    /\ IF Len(split(args.size, ",")) # 2
       THEN Raise("ValueError")
       ELSE IF "python_path" \notin dests
       THEN Raise("AttributeError")
       ELSE pc' = "t_setup" /\ outcome' = outcome
    /\ UNCHANGED << op, args, plot_dir, workspaces, files, cwd, entry_cwd,
                    environ, child_env, events, latex_log, display_data,
                    published, saved, invocations >>

\* Lines 309-382: the temporary directory is made, the document is
\* assembled (the template of lines 366-372 is formatted with `conversion`
\* after %(python_path)), and with --showlatex the source is printed and the
\* magic returns.
thapl_setup(conversion) ==
    /\ pc = "t_setup"
    /\ LET d == mkdtemp(workspaces \cup {NotebookDir, ScratchDir})
       IN  /\ plot_dir' = d
           /\ workspaces' = workspaces \cup {d}
           /\ tex' = IF conversion \notin FormatConversions
                     THEN tex_head(args)
                     ELSE tex_head(args) \o tex_tail
           /\ IF conversion \notin FormatConversions
              THEN /\ events' = events \o <<Event("mkdtemp", d)>>
                   /\ Raise("ValueError")
              ELSE IF args.showlatex
              THEN /\ events' = events \o
                                  <<Event("mkdtemp", d), Event("stdout", Code.body)>>
                   /\ Return
              ELSE /\ events' = events \o <<Event("mkdtemp", d)>>
                   /\ pc' = "t_write_thapl"
                   /\ outcome' = outcome
    /\ UNCHANGED << op, args, files, cwd, entry_cwd, environ, child_env,
                    latex_log, display_data, published, saved, invocations >>

\* Line 384
thapl_write_thapl ==
    /\ pc = "t_write_thapl"
    /\ UNCHANGED tex
    /\ \E ok \in BOOLEAN :
         LET r == _write_thapl(Code, plot_dir, cwd, files, environ, ok)
         IN  /\ Apply(r, events, child_env)
             /\ IF r.exc # ""
                THEN Raise(r.exc)
                ELSE pc' = "t_run_latex" /\ outcome' = outcome
    /\ UNCHANGED << op, args, plot_dir, workspaces, entry_cwd, latex_log,
                    display_data, published, saved, invocations >>

\* The files besides magic.pdf and thapl.log that the pipeline looks up after
\* the engine ran: tikz.<format>.
Extras(plot_format) == Maybe(image_name(plot_format), ImageContents)

\* Line 385
thapl_run_latex ==
    /\ pc = "t_run_latex"
    /\ UNCHANGED tex
    /\ \E ok \in BOOLEAN, run \in LatexRuns(Extras(args.format)) :
         LET r == _run_latex(Text(join(tex)), plot_dir, cwd, files, environ,
                            ok, run)
         IN  /\ Apply(r, events, child_env)
             /\ latex_log' = r.log
             /\ IF r.exc # ""
                THEN Raise(r.exc)
                ELSE pc' = "t_log" /\ outcome' = outcome
    /\ UNCHANGED << op, args, plot_dir, workspaces, entry_cwd, display_data,
                    published, saved, invocations >>

\* `if latex_log:` a str is true when it is not empty, None is false
truthy(log) == ~log.none /\ log.text # ""

Payload(source, mime, data, metadata) ==
    [source |-> source, mime |-> mime, data |-> data, metadata |-> metadata]

\* A publication of the log that is not followed by a return: the magic goes
\* on to the conversion.
after_log_published_goes_on == "t_convert"

\* What follows the publication of the log (lines 393-395): the magic
\* returns.
after_log_published == "done"

\* Lines 387-395: a log that is true is published as text/plain and the
\* magic returns.
thapl_log ==
    /\ pc = "t_log"
    /\ UNCHANGED tex
    /\ IF truthy(latex_log)
       THEN /\ published' = Append(published,
                   Payload(key, "text/plain", Text(latex_log.text), "absent"))
            /\ events' = Append(events, Event("publish", "text/plain"))
            /\ pc' = after_log_published
            /\ outcome' = IF after_log_published = "done" THEN "returned" ELSE outcome
       ELSE /\ pc' = "t_convert"
            /\ UNCHANGED << published, events, outcome >>
    /\ UNCHANGED << op, args, plot_dir, workspaces, files, cwd, entry_cwd,
                    environ, child_env, latex_log, display_data, saved,
                    invocations >>

\* Lines 397-400
thapl_convert ==
    /\ pc = "t_convert"
    /\ UNCHANGED tex
    /\ IF args.format \in {"jpg", "jpeg"}
       THEN \E run \in ConvertRuns("magic.jpg") :
              LET r == _convert_png_to_jpg(plot_dir, cwd, files, environ, run)
              IN  /\ Apply(r, events, child_env)
                  /\ IF r.exc # ""
                     THEN Raise(r.exc)
                     ELSE pc' = "t_image" /\ outcome' = outcome
       ELSE IF args.format = "svg"
       THEN \E run \in ConvertRuns("magic.svg") :
              LET r == _convert_pdf_to_svg(plot_dir, cwd, files, environ, run)
              IN  /\ Apply(r, events, child_env)
                  /\ IF r.exc # ""
                     THEN Raise(r.exc)
                     ELSE pc' = "t_image" /\ outcome' = outcome
       ELSE /\ pc' = "t_image"
            /\ UNCHANGED << cwd, files, environ, child_env, events, outcome >>
    /\ UNCHANGED << op, args, plot_dir, workspaces, entry_cwd, latex_log,
                    display_data, published, saved, invocations >>

\* The metadata argument of the publication: isolated for svg (line 427),
\* None otherwise (line 430).
metadata_of(plot_format) == IF plot_format = "svg" THEN "isolated" ELSE "none"

\* Lines 402-415: the image file is opened and read; an IOError is reported
\* and leaves display_data empty.  With the file read, the size is converted
\* with int (ValueError is not handled) and an svg is rewritten (neither is
\* what minidom raises).
thapl_image ==
    /\ pc = "t_image"
    /\ UNCHANGED tex
    /\ LET image_filename == image_name(args.format)
           parts == split(args.size, ",")
           opened == Append(events, Event("open", image_filename))
       IN  IF image_filename \notin DOMAIN files
           THEN /\ events' = Append(opened, Event("stderr", "No image generated."))
                /\ display_data' = <<>>
                /\ pc' = "t_copy"
                /\ outcome' = outcome
           ELSE IF \E i \in 1..Len(parts) : ~int_ok(parts[i])
           THEN /\ events' = opened
                /\ display_data' = <<>>
                /\ Raise("ValueError")
           ELSE LET image == files[image_filename]
                    width == int(parts[1])
                    height == int(parts[2])
                    fixed == _fix_gnuplot_svg_size(image, SizeOf(width, height))
                IN  /\ events' = opened
                    /\ IF args.format = "svg"
                       THEN IF fixed.exc # ""
                            THEN display_data' = <<>> /\ Raise(fixed.exc)
                            ELSE /\ display_data' =
                                      << [mime |-> mimetype(args.format),
                                          data |-> fixed.value] >>
                                 /\ pc' = "t_copy"
                                 /\ outcome' = outcome
                       ELSE /\ display_data' =
                                 << [mime |-> mimetype(args.format),
                                     data |-> image] >>
                            /\ pc' = "t_copy"
                            /\ outcome' = outcome
    /\ UNCHANGED << op, args, plot_dir, workspaces, files, cwd, entry_cwd,
                    environ, child_env, latex_log, published, saved,
                    invocations >>

\* A copy that stores the payload about to be published, not the file.
copied_payload(fs, image_filename, data) == data[1].data

\* What shutil.copy(image_filename, args.save) stores at the save path: the
\* bytes of the file.
copied(fs, image_filename, data) == fs[image_filename]

\* Lines 417-419: with a save path the image file is copied; copy raises
\* when the file is not there, and nothing handles it.
thapl_copy ==
    /\ pc = "t_copy"
    /\ UNCHANGED tex
    /\ LET image_filename == image_name(args.format)
       IN  IF ~args.save.isset
           THEN pc' = "t_rmtree" /\ UNCHANGED << saved, events, outcome >>
           ELSE IF image_filename \notin DOMAIN files
           THEN Raise("FileNotFoundError") /\ UNCHANGED << saved, events >>
           ELSE /\ saved' = WriteFile(saved, args.save.path,
                                      copied(files, image_filename, display_data))
                /\ events' = Append(events, Event("copy", args.save.path))
                /\ pc' = "t_rmtree"
                /\ outcome' = outcome
    /\ UNCHANGED << op, args, plot_dir, workspaces, files, cwd, entry_cwd,
                    environ, child_env, latex_log, display_data, published,
                    invocations >>

\* Line 421
thapl_rmtree ==
    /\ pc = "t_rmtree"
    /\ UNCHANGED tex
    /\ workspaces' = workspaces \ {plot_dir}
    /\ files' = NoFiles
    /\ events' = Append(events, Event("rmtree", plot_dir))
    /\ pc' = "t_publish"
    /\ UNCHANGED << op, args, plot_dir, cwd, entry_cwd, environ, child_env,
                    latex_log, display_data, published, outcome, saved,
                    invocations >>

\* Lines 423-430: each entry of display_data is published.
thapl_publish ==
    /\ pc = "t_publish"
    /\ UNCHANGED tex
    /\ published' = published \o
         [ i \in 1..Len(display_data) |->
             Payload(key, display_data[i].mime, display_data[i].data,
                     metadata_of(args.format)) ]
    /\ events' = events \o
         [ i \in 1..Len(display_data) |-> Event("publish", display_data[i].mime) ]
    /\ Return
    /\ UNCHANGED << op, args, plot_dir, workspaces, files, cwd, entry_cwd,
                    environ, child_env, latex_log, display_data, saved,
                    invocations >>

(* ------------------------------------------------------------------ *)
(* The helpers called directly, on the directory ScratchDir             *)
(* ------------------------------------------------------------------ *)

\* A direct call ends with the helper: what it returned or raised.  The
\* caller hands in an existing, empty directory.
Finish(r) ==
    /\ Apply(r, <<>>, Unset)
    /\ latex_log' = r.log
    /\ pc' = "done"
    /\ outcome' = IF r.exc = "" THEN "returned" ELSE r.exc
    /\ args' = NoArgs
    /\ plot_dir' = ScratchDir
    /\ UNCHANGED << workspaces, saved >>

\* _run_latex(code, encoding, ScratchDir) called on the object
call_run_latex ==
    /\ Start("_run_latex")
    /\ \E ok \in BOOLEAN, run \in LatexRuns({NoFiles}) :
         Finish(_run_latex(Tex, ScratchDir, cwd, NoFiles, environ, ok, run))

\* _convert_pdf_to_svg(ScratchDir) called on the object
call_convert_pdf_to_svg ==
    /\ Start("_convert_pdf_to_svg")
    /\ \E run \in ConvertRuns("magic.svg") :
         Finish(_convert_pdf_to_svg(ScratchDir, cwd, NoFiles, environ, run))

\* _convert_png_to_jpg(ScratchDir, 'convert') called on the object
call_convert_png_to_jpg ==
    /\ Start("_convert_png_to_jpg")
    /\ \E run \in ConvertRuns("magic.jpg") :
         Finish(_convert_png_to_jpg(ScratchDir, cwd, NoFiles, environ, run))

(* ------------------------------------------------------------------ *)
(* Specifications                                                       *)
(* ------------------------------------------------------------------ *)

\* The module as shipped.
Next ==
    \/ thapl_invoke(Namespaces)
    \/ thapl_read_args(ArgDests)
    \/ call_run_latex
    \/ call_convert_pdf_to_svg
    \/ call_convert_png_to_jpg

Spec == Init /\ [][Next]_vars

\* The body of thapl past lines 305 and 368: python_path a declared option,
\* the template directive %(python_path)s.
NextPipeline ==
    \/ thapl_invoke(Namespaces)
    \/ thapl_read_args(ArgDests \cup {"python_path"})
    \/ thapl_setup("s")
    \/ thapl_write_thapl
    \/ thapl_run_latex
    \/ thapl_log
    \/ thapl_convert
    \/ thapl_image
    \/ thapl_copy
    \/ thapl_rmtree
    \/ thapl_publish

SpecPipeline == Init /\ [][NextPipeline]_vars

\* The assembly of the document: the same body of thapl, called with
\* --showlatex and the document options varied, so that it returns at line
\* 382 with the list assembled.
NextDocument ==
    \/ thapl_invoke(DocumentNamespaces)
    \/ thapl_read_args(ArgDests \cup {"python_path"})
    \/ thapl_setup("s")

SpecDocument == Init /\ [][NextDocument]_vars

(* ------------------------------------------------------------------ *)
(* Vocabulary of the properties                                         *)
(* ------------------------------------------------------------------ *)

ThaplDone == op = "thapl" /\ pc = "done"

HelperDone ==
    /\ op \in {"_run_latex", "_convert_pdf_to_svg", "_convert_png_to_jpg"}
    /\ pc = "done"

Said(msg) == CountOf(events, Event("stderr", msg)) > 0

\* the engine returned a non-zero code or could not be launched
LatexFailed ==
    Said("LaTeX terminated with signal") \/ Said("LaTeX execution failed:")

LatexSucceeded ==
    CountOf(events, Event("call", "xelatex")) > 0 /\ ~LatexFailed

\* a conversion tool returned a non-zero code or could not be launched
ConversionFailed ==
    \/ Said("pdf2svg terminated with signal") \/ Said("pdf2svg execution failed:")
    \/ Said("convert terminated with signal") \/ Said("convert execution failed:")

\* the subprocesses invoked so far, in order
Calls == SelectSeq(events, LAMBDA e : e.ev = "call")

LogPublished == \E i \in 1..Len(published) : published[i].mime = "text/plain"

ImagePublished == \E i \in 1..Len(published) : published[i].mime # "text/plain"

\* the size option is two components, each a decimal number
ValidSize(size) ==
    LET parts == split(size, ",")
    IN  Len(parts) = 2 /\ int_ok(parts[1]) /\ int_ok(parts[2])

(* ------------------------------------------------------------------ *)
(* C1                                                                   *)
(* ------------------------------------------------------------------ *)

UnlistedExceptions ==
    { "OSError", "KeyboardInterrupt", "ValueError", "ExpatError", "TypeError",
      "UsageError", "AttributeError" }

ExpectedSize(size) ==
    CASE size = <<"4", "0", "0", ",", "2", "4", "0">> -> <<"400px", "240px">>
      [] size = <<"3", "2", ",", "2", "0">> -> <<"32px", "20px">>
      [] size = <<"7", ",", "7">> -> <<"7px", "7px">>
      [] OTHER -> <<"", "">>

C8_HelperRestoresCwd == HelperDone => cwd = entry_cwd

(* ------------------------------------------------------------------ *)
(* C9                                                                   *)
(* ------------------------------------------------------------------ *)

\* C9: no step changes TEXINPUTS in the parent's environment, and the value
\* handed to the LaTeX engine is the extension of the parent's value by the
\* directory of the call, whatever earlier calls handed out.
C9_ParentEnvironmentKept ==
    /\ [][environ' = environ]_vars
    /\ [](child_env.isset => child_env = child_texinputs(environ, entry_cwd))

\* A second call of _run_latex reached the engine, from a directory a failed
\* earlier call left the process in.
C9_Witness ==
    /\ op = "_run_latex"
    /\ pc = "done"
    /\ invocations = 2
    /\ child_env.isset
    /\ entry_cwd = ScratchDir

(* ------------------------------------------------------------------ *)
(* C10                                                                  *)
(* ------------------------------------------------------------------ *)

\* The file bytes a published payload was made from: the rewriting of an svg
\* sets the width and height of a file that had none.
Unrewritten(data) == [data EXCEPT !.width = "", !.height = ""]

RequestedAttributes(size) ==
    CASE size = <<"4", "0", "0", ",", "2", "4", "0">> ->
           [width |-> "400px", height |-> "240px"]
      [] size = <<"3", "2", ",", "2", "0">> ->
           [width |-> "32px", height |-> "20px"]
      [] size = <<"7", ",", "7">> -> [width |-> "7px", height |-> "7px"]
      [] OTHER -> [width |-> "?", height |-> "?"]

RequestedPackages(option) ==
    CASE option = <<>> -> << "" >>
      [] option = <<"pgfplots">> -> << "pgfplots" >>
      [] option = <<"pgfplots", ",", "textcomp">> -> << "pgfplots", "textcomp" >>
      [] option = <<"textcomp", ",", "pgfplots">> -> << "textcomp", "pgfplots" >>
      [] option = <<"pgfplots", ",">> -> << "pgfplots", "" >>

UsePackageLine(name) == "\n\\usepackage{" \o name \o "}\n            "

UsePackageLines == { UsePackageLine(n) : n \in { "", "pgfplots", "textcomp" } }

UseLibraryLines ==
    { "\n\\usetikzlibrary{" \o n \o "}\n            " :
        n \in { "", "matrix", "arrows" } }

ToolsFor(plot_format) ==
    CASE plot_format = "jpg" -> << Event("call", "convert") >>
      [] plot_format = "jpeg" -> << Event("call", "convert") >>
      [] plot_format = "svg" -> << Event("call", "pdf2svg") >>
      [] OTHER -> << >>

MimeTypeOf(plot_format) ==
    CASE plot_format = "png" -> "image/png"
      [] plot_format = "svg" -> "image/svg+xml"
      [] plot_format = "jpg" -> "image/jpeg"
      [] plot_format = "jpeg" -> "image/jpeg"
      [] plot_format = "gif" -> "image/gif"

AllToolsSucceeded ==
    /\ LatexSucceeded
    /\ ~ConversionFailed
    /\ Calls = << Event("call", "xelatex") >> \o ToolsFor(args.format)

\* The directory holds the two sources and the files the command lines
\* name, and nothing else.
OnlyNamedOutputs ==
    DOMAIN files \subseteq
        { "magic.thapl", "magic.tex", "magic.pdf", "magic.svg", "magic.jpg" }

====
